---- MODULE Spec2Model ----
(***************************************************************************)
(* Camera-set bookkeeping of scene.Scene (src/scene/__init__.py).          *)
(*                                                                         *)
(* Cameras are Python objects: a list holds references, and two list slots *)
(* may hold the same object.  The model keeps a heap `cams` from           *)
(* references to camera records and lists of references.  An object that   *)
(* no list refers to any more is reclaimed (its slot becomes NoCamera) and *)
(* the lowest free slot is handed to the next object created.              *)
(*                                                                         *)
(* Scales are numbered: 1 stands for the resolution scale 1.0, 2 for any   *)
(* other scale.  Image names are numbered as well.                         *)
(*                                                                         *)
(* Beside the bookkeeping the module holds the two ways a Scene gets its   *)
(* representation (made from the point cloud, or loaded from a snapshot    *)
(* that save wrote under model_path), the record of the Scenes a process   *)
(* builds, and get_combined_args (src/arguments/__init__.py).  Each has a  *)
(* specification of its own: Spec, SpecScales and SpecFilter run the       *)
(* methods of a Scene, SpecPersist a training run and its restarts,        *)
(* SpecShuffle a process building Scene after Scene, SpecArgs the merge    *)
(* of command line and saved configuration.                                *)
(***************************************************************************)
EXTENDS Integers, Sequences, FiniteSets, TLC

\* ------------------------------------------------------------------ bounds
\* Most train views of a dataset; it has fewer test views than that.
MaxViews == 2
\* Longest train list the model lets add_camera / load_inflated_cameras build.
MaxLen == 3
\* Largest identifier: add_camera is given uids up to it, and
\* load_inflated_cameras is not called once its block would pass it.
MaxUid == 2
\* Calls made on a Scene after its construction.
MaxCalls == 2
\* Largest image name of a camera given to add_camera.
MaxName == 0
\* Largest manifest and largest stride given to load_inflated_cameras.
MaxManifest == 3
MaxStride == 2
\* Largest iteration number given to save and to load_iteration.
MaxIter == 1
\* Optimizer steps told apart in the state of the representation.
MaxTrain == 2
\* Fields a parser or a saved configuration may hold, and the largest value
\* of a field.
MaxKeys == 2
MaxValue == 1

\* ------------------------------------------------------------- value sets
Scales == {1, 2}
\* Python's None where a number is expected: a value no uid, name or index takes.
None == -1
\* None where an iteration number is expected: -1 is an iteration number the
\* constructor gives a meaning, so None takes another value here.
NoneIter == -2
UidSet == 0..MaxUid
NameSet == 0..MaxName
\* Names a name-mapping may mention: those of the dataset's train views.
MapNameSet == 0..(MaxViews - 1)
\* Positions given in a selection over a list: every position of the list
\* and the first one past it.
IndexSet(seq) == 0..Len(seq)
Refs == 1..(MaxLen + MaxViews)
NoCamera == [uid |-> None, image_name |-> None]
Camera == [uid : UidSet, image_name : NameSet]

\* The selections update_cameras is given: no entry, one entry, or (for the
\* train selection) two entries, which may repeat.
UpToOne(S) == {<<>>} \cup {<<i>> : i \in S}

UpToTwo(S) == UpToOne(S) \cup {<<i, j>> : i \in S, j \in S}

VARIABLES
    resolution_scales,      \* the scales realized at construction, in order
    train_cameras,          \* scale -> list of camera references
    test_cameras,           \* scale -> list of camera references
    cams,                   \* the camera objects: reference -> record
    all_train_set,          \* the universe of train identifiers
    train_idxs,             \* the active sequence
    test_idxs,              \* {} until update_cameras sets it, then {list}
    num_cameras,
    candidate_views_filter, \* "None" or the name of a predicate
    last,                   \* the last call: operation, arguments, outcome
    calls,                  \* calls made since construction
    loaded_iter,            \* the iteration the Scene resumed from, or NoneIter
    gaussians,              \* the state of the representation (GaussianModel)
    model_dir,              \* the files under model_path
    built,                  \* the index of every Scene the process made after this first one
    parser,                 \* the ArgumentParser: field -> default
    sys_argv,               \* the command line: field -> value given
    cfg_file,               \* model_path/cfg_args: how opening it ends, and its Namespace
    merged                  \* what get_combined_args gave

\* What construction and save write besides the camera bookkeeping.
construction == <<loaded_iter, gaussians, model_dir, built>>

vars == <<resolution_scales, train_cameras, test_cameras, cams, all_train_set,
          train_idxs, test_idxs, num_cameras, candidate_views_filter, last, calls,
          construction, parser, sys_argv, cfg_file, merged>>

\* The program's entry point, which the methods of a Scene leave alone.
arguments == <<parser, sys_argv, cfg_file, merged>>

\* ------------------------------------------------------- Python list steps
Range(n) == [p \in 1..n |-> p - 1]

Elems(seq) == {seq[p] : p \in 1..Len(seq)}

\* seq[i] of Python: a negative index counts from the end.
PyIndexOK(seq, i) == i >= -Len(seq) /\ i < Len(seq)

PyGet(seq, i) == IF i >= 0 THEN seq[i + 1] ELSE seq[Len(seq) + i + 1]

\* [all_cameras[i] for i in indices]: raises IndexError unless every index is in range.
AllIndexOK(all_cameras, indices) ==
    \A p \in 1..Len(indices) : PyIndexOK(all_cameras, indices[p])

\* Variant: the comprehension walking the selection backwards.
SelectCamerasReversed(all_cameras, indices) ==
    [p \in 1..Len(indices) |-> PyGet(all_cameras, indices[Len(indices) + 1 - p])]

SelectCameras(all_cameras, indices) ==
    [p \in 1..Len(indices) |-> PyGet(all_cameras, indices[p])]

\* for new_idx, cam in enumerate(seq): cam.uid = new_idx
RECURSIVE ResetUidsFrom(_, _, _)
ResetUidsFrom(heap, seq, p) ==
    IF p > Len(seq) THEN heap
    ELSE ResetUidsFrom([heap EXCEPT ![seq[p]].uid = p - 1], seq, p + 1)

ResetUids(heap, seq) == ResetUidsFrom(heap, seq, 1)

\* The objects some list of the Scene still refers to.
Live(tr, te) ==
    UNION {Elems(tr[s]) : s \in DOMAIN tr} \cup UNION {Elems(te[s]) : s \in DOMAIN te}

\* Objects no list refers to are reclaimed.
Reclaim(heap, tr, te) ==
    [r \in Refs |-> IF r \in Live(tr, te) THEN heap[r] ELSE NoCamera]

\* The k lowest free references, in ascending order.
RECURSIVE FreshRefs(_, _)
FreshRefs(used, k) ==
    IF k = 0 THEN <<>>
    ELSE LET r == CHOOSE x \in Refs \ used : \A y \in Refs \ used : x <= y
         IN  <<r>> \o FreshRefs(used \cup {r}, k - 1)

\* ---------------------------------------------------------- construction
\* random.Random(42).shuffle(list(range(n))) of CPython, for the sizes modelled.
Shuffle42(n) ==
    CASE n = 0 -> <<>>
      [] n = 1 -> <<0>>
      [] n = 2 -> <<1, 0>>
      [] n = 3 -> <<1, 0, 2>>
      [] n = 4 -> <<2, 1, 3, 0>>
      [] OTHER -> <<3, 1, 2, 4, 0>>

\* random.shuffle(test_cameras), unseeded: any order of the test views.
TestOrders(n) ==
    {f \in [1..n -> 0..(n - 1)] : \A a, b \in 1..n : a # b => f[a] # f[b]}

\* cameraList_from_camInfos: one camera per info, in order, uid = position.
\* Train view i carries image name i, test view j image name MaxViews + j.
TrainCameraAt(i) == [uid |-> i, image_name |-> i]

TestCameraAt(q, order) == [uid |-> q, image_name |-> MaxViews + order[q + 1]]

\* load_cam_info on entry k of a manifest: the camera of the k-th manifest
\* image.  Its uid is taken to be the entry's place in the manifest; no
\* formula below reads the uid of an inflated camera before a re-index.
ManifestCameraAt(k) == [uid |-> k, image_name |-> 2 * MaxViews + k]

NoCall == [op |-> "init", scale |-> 1, status |-> "ok", ret |-> None,
           kind |-> "none", train |-> <<>>, test |-> <<>>, m |-> 0, skip |-> 0,
           out |-> <<>>, iteration |-> NoneIter, effects |-> <<>>]

\* Truth value of an iteration number: `if load_iteration:` / `if self.loaded_iter:`.
Truthy(iteration) == iteration # NoneIter /\ iteration # 0

\* `if not self.loaded_iter:` of line 58 and `if self.loaded_iter:` of line 91.
FreshRunAlways(iteration) == TRUE

FreshRun(iteration) == ~Truthy(iteration)

Resumes(iteration) == Truthy(iteration)

\* The representation create_from_pcd makes of the dataset's point cloud;
\* every optimizer step after it gives the next state.
PcdState == 0

IterSet == 0..MaxIter

\* An empty model directory.
EmptyDir == [input_ply |-> FALSE, cameras_json |-> FALSE,
             point_cloud |-> [k \in IterSet |-> None]]

\* Lines 58-70: the copy of the point cloud and the camera manifest.
WriteArtifacts(dir) == [dir EXCEPT !.input_ply = TRUE, !.cameras_json = TRUE]

\* Lines 72-89: the camera bookkeeping of a Scene over `scales`, for a
\* dataset of n train and t test views, with the active sequence `active`
\* and the test views in the order `order`.
Built(scales, n, t, active, order) ==
    LET k == Len(scales)
        trainRef(j, i) == (j - 1) * (n + t) + i + 1
        testRef(j, q) == (j - 1) * (n + t) + n + q + 1
        pos(s) == CHOOSE j \in 1..k : scales[j] = s
    IN  [num_cameras |-> n + t,
         all_train_set |-> 0..(n - 1),
         train_idxs |-> active,
         train_cameras |-> [s \in Elems(scales) |-> [p \in 1..n |-> trainRef(pos(s), p - 1)]],
         test_cameras |-> [s \in Elems(scales) |-> [p \in 1..t |-> testRef(pos(s), p - 1)]],
         cams |-> [r \in Refs |->
                 IF \E j \in 1..k, i \in 0..(n - 1) : r = trainRef(j, i)
                 THEN TrainCameraAt(CHOOSE i \in 0..(n - 1) : \E j \in 1..k : r = trainRef(j, i))
                 ELSE IF \E j \in 1..k, q \in 0..(t - 1) : r = testRef(j, q)
                 THEN TestCameraAt(CHOOSE q \in 0..(t - 1) : \E j \in 1..k : r = testRef(j, q), order)
                 ELSE NoCamera]]

\* No parser made, no command line read.
NoArguments ==
    /\ parser = <<>>
    /\ sys_argv = <<>>
    /\ cfg_file = [found |-> "TypeError", args |-> <<>>]
    /\ merged = [status |-> "none", args |-> <<>>]

\* A Scene made on an empty model directory with load_iteration=None.
Construct(scales, n, t, shuffle, order) ==
    LET active == IF shuffle THEN Shuffle42(n) ELSE Range(n)
        b == Built(scales, n, t, active, order)
    IN  /\ resolution_scales = scales
        /\ num_cameras = b.num_cameras
        /\ all_train_set = b.all_train_set
        /\ train_idxs = b.train_idxs
        /\ test_idxs = {}
        /\ candidate_views_filter = "None"
        /\ train_cameras = b.train_cameras
        /\ test_cameras = b.test_cameras
        /\ cams = b.cams
        /\ last = NoCall
        /\ calls = 0
        /\ loaded_iter = NoneIter
        /\ gaussians = PcdState
        /\ model_dir = WriteArtifacts(EmptyDir)
        /\ built = {}
        /\ NoArguments

Init ==
    \E n \in 1..MaxViews, t \in 0..(MaxViews - 1), shuffle \in BOOLEAN :
        \E order \in (IF shuffle THEN TestOrders(t) ELSE {Range(t)}) :
            Construct(<<1>>, n, t, shuffle, order)

\* -------------------------------------------------------------- accessors
getTrainCameras(scale) == train_cameras[scale]

getTestCameras(scale) == test_cameras[scale]

Accepts(f, id) ==
    CASE f = "None" -> TRUE
      [] OTHER -> id % 2 = 0

\* Variant: the sort running from the largest identifier down.
RECURSIVE SortedDescending(_)
SortedDescending(S) ==
    IF S = {} THEN <<>>
    ELSE LET hi == CHOOSE x \in S : \A y \in S : y <= x
         IN  <<hi>> \o SortedDescending(S \ {hi})

\* sorted(list(...)): the ascending sequence of a finite set of integers.
RECURSIVE Sorted(_)
Sorted(S) ==
    IF S = {} THEN <<>>
    ELSE LET lo == CHOOSE x \in S : \A y \in S : x <= y
         IN  <<lo>> \o Sorted(S \ {lo})

Filter(f, seq) == SelectSeq(seq, LAMBDA id : Accepts(f, id))

CandidateIds == all_train_set \ Elems(train_idxs)

get_candidate_set ==
    LET candidate_set == Sorted(CandidateIds)
    IN  IF candidate_views_filter # "None"
        THEN Filter(candidate_views_filter, candidate_set)
        ELSE candidate_set

\* getCandidateCameras raises (IndexError) unless every candidate is a position.
getCandidateCamerasOK(scale) == AllIndexOK(train_cameras[scale], get_candidate_set)

getCandidateCameras(scale) == SelectCameras(train_cameras[scale], get_candidate_set)

\* ------------------------------------------------------------- operations
Call(op, scale, status, ret) ==
    [op |-> op, scale |-> scale, status |-> status, ret |-> ret,
     kind |-> "none", train |-> <<>>, test |-> <<>>, m |-> 0, skip |-> 0,
     out |-> <<>>, iteration |-> NoneIter, effects |-> <<>>]

\* Variant: add_camera starting the universe over with the new identifier.
AddToUniverseOnly(universe, idx) == {idx}

\* Variant: add_camera leaving the universe alone.
AddToUniverseSkipped(universe, idx) == universe

\* self.all_train_set.add(idx)
AddToUniverse(universe, idx) == universe \cup {idx}

\* self.train_idxs.append(idx)
AppendActive(active, idx) == Append(active, idx)

\* Variant: add_camera making the entry of a scale it does not find.
add_camera_any_scale(ref, rec, scale) ==
    LET idx == rec.uid
        prior == IF scale \in DOMAIN train_cameras THEN train_cameras[scale] ELSE <<>>
    IN  /\ Len(prior) < MaxLen
        /\ train_cameras' = [s \in DOMAIN train_cameras \cup {scale} |->
                                IF s = scale THEN Append(prior, ref) ELSE train_cameras[s]]
        /\ cams' = [cams EXCEPT ![ref] = rec]
        /\ all_train_set' = all_train_set \cup {idx}
        /\ train_idxs' = Append(train_idxs, idx)
        /\ last' = Call("add_camera", scale, "ok", idx)
        /\ UNCHANGED <<resolution_scales, test_cameras, test_idxs, num_cameras,
                       candidate_views_filter>>

\* add_camera(camera, scale): `ref` is the camera object, which the caller
\* either made (a free reference, with record `rec`) or took from the Scene.
add_camera(ref, rec, scale) ==
    IF scale \notin DOMAIN train_cameras
    THEN /\ last' = Call("add_camera", scale, "ValueError", None)
         /\ UNCHANGED <<resolution_scales, train_cameras, test_cameras, cams,
                        all_train_set, train_idxs, test_idxs, num_cameras,
                        candidate_views_filter>>
    ELSE LET idx == rec.uid
         IN  /\ Len(train_cameras[scale]) < MaxLen
             /\ train_cameras' = [train_cameras EXCEPT ![scale] = Append(@, ref)]
             /\ cams' = [cams EXCEPT ![ref] = rec]
             /\ all_train_set' = AddToUniverse(all_train_set, idx)
             /\ train_idxs' = AppendActive(train_idxs, idx)
             /\ last' = Call("add_camera", scale, "ok", idx)
             /\ UNCHANGED <<resolution_scales, test_cameras, test_idxs, num_cameras,
                            candidate_views_filter>>

AddCamera ==
    /\ calls < MaxCalls
    /\ calls' = calls + 1
    /\ UNCHANGED <<construction, arguments>>
    /\ \E scale \in Scales :
        \/ \E rec \in Camera :
              add_camera(FreshRefs(Live(train_cameras, test_cameras), 1)[1], rec, scale)
        \/ \E ref \in Live(train_cameras, test_cameras) :
              /\ scale \in DOMAIN train_cameras
              /\ add_camera(ref, cams[ref], scale)

\* [idx for idx in range(len(info_dict)) if idx % inflate_skip == 0]
LoadIdxs(m, inflate_skip) ==
    SelectSeq(Range(m), LAMBDA idx : idx % inflate_skip = 0)

MaxOf(S) == CHOOSE x \in S : \A y \in S : y <= x

\* [base_idx + i for i, _ in enumerate(load_idxs)]
InflatedIds(base_idx, load_idxs) ==
    {base_idx + (i - 1) : i \in 1..Len(load_idxs)}

\* The body of `for scale in self.train_cameras.keys()` run over the scales
\* `keys` still to visit; st carries the fields the loop writes and the outcome.
RECURSIVE InflateLoop(_, _, _, _)
InflateLoop(st, keys, info_dict, inflate_skip) ==
    IF keys = <<>> THEN st
    ELSE LET scale == Head(keys)
         IN  IF scale # 1 THEN [st EXCEPT !.status = "AssertionError"]
             ELSE IF st.universe = {} THEN [st EXCEPT !.status = "ValueError"]
             ELSE LET base_idx == MaxOf(st.universe) + 1
                      load_idxs == LoadIdxs(Len(info_dict), inflate_skip)
                      load_dicts == [i \in 1..Len(load_idxs) |-> info_dict[load_idxs[i] + 1]]
                      inflated_cams == [i \in 1..Len(load_dicts) |-> ManifestCameraAt(load_dicts[i])]
                      refs == FreshRefs(Live(st.train, test_cameras), Len(load_idxs))
                  IN  InflateLoop(
                          [st EXCEPT
                             !.universe = @ \cup InflatedIds(base_idx, load_idxs),
                             !.train = [@ EXCEPT ![scale] = @ \o refs],
                             !.heap = [r \in Refs |->
                                         IF \E i \in 1..Len(refs) : refs[i] = r
                                         THEN inflated_cams[CHOOSE i \in 1..Len(refs) : refs[i] = r]
                                         ELSE @[r]]],
                          Tail(keys), info_dict, inflate_skip)

load_inflated_cameras(info_dict, inflate_skip) ==
    LET count == Len(LoadIdxs(Len(info_dict), inflate_skip))
        room == /\ \A s \in DOMAIN train_cameras : Len(train_cameras[s]) + count <= MaxLen
                /\ \A id \in all_train_set : id + count <= MaxUid
        st == InflateLoop([universe |-> all_train_set, train |-> train_cameras,
                           heap |-> cams, status |-> "ok"],
                          resolution_scales, info_dict, inflate_skip)
    IN  /\ room
        /\ all_train_set' = st.universe
        /\ train_cameras' = st.train
        /\ cams' = st.heap
        /\ last' = [Call("load_inflated_cameras", 1, st.status, None)
                      EXCEPT !.m = Len(info_dict), !.skip = inflate_skip]
        /\ UNCHANGED <<resolution_scales, test_cameras, train_idxs, test_idxs,
                       num_cameras, candidate_views_filter>>

LoadInflatedCameras ==
    /\ calls < MaxCalls
    /\ calls' = calls + 1
    /\ UNCHANGED <<construction, arguments>>
    /\ \E m \in 0..MaxManifest, inflate_skip \in 1..MaxStride :
        load_inflated_cameras(Range(m), inflate_skip)

\* matched_idx of the name-mapping branch: the uid of every camera whose
\* image name is a value of the mapping, in list order.
MatchedIdx(heap, all_cameras, train_names) ==
    LET hits == SelectSeq(all_cameras, LAMBDA r : heap[r].image_name \in train_names)
    IN  [p \in 1..Len(hits) |-> heap[hits[p]].uid]

\* self.train_idxs = list(range(0, len(train_indices)))
NewTrainIdxs(train_indices) == Range(Len(train_indices))

\* The two enumerate loops: train first, then test.
ResetIdentifiers(heap, new_train, new_test) ==
    ResetUids(ResetUids(heap, new_train), new_test)

\* update_cameras(train_indices, test_indices, scale); kind tells whether
\* train_indices is a list of positions or a mapping (given by its values,
\* one per key).
update_cameras(kind, train_indices, test_indices, scale) ==
    LET call(status) == [Call("update_cameras", scale, status, None)
                           EXCEPT !.kind = kind, !.train = train_indices,
                                  !.test = test_indices]
    IN
    IF scale \notin DOMAIN train_cameras
    THEN /\ last' = call("KeyError")
         /\ UNCHANGED <<resolution_scales, train_cameras, test_cameras, cams,
                        all_train_set, train_idxs, test_idxs, num_cameras,
                        candidate_views_filter>>
    ELSE
    LET all_cameras == train_cameras[scale]
        picked == IF kind = "list" THEN train_indices
                  ELSE MatchedIdx(cams, all_cameras, Elems(train_indices))
    IN
    IF ~AllIndexOK(all_cameras, picked)
    THEN /\ last' = call("IndexError")
         /\ UNCHANGED <<resolution_scales, train_cameras, test_cameras, cams,
                        all_train_set, train_idxs, test_idxs, num_cameras,
                        candidate_views_filter>>
    ELSE
    LET new_train == SelectCameras(all_cameras, picked)
        train2 == [train_cameras EXCEPT ![scale] = new_train]
    IN
    IF ~AllIndexOK(all_cameras, test_indices)
    THEN \* line 187 raises after line 177/184 has replaced the train list
         /\ train_cameras' = train2
         /\ cams' = Reclaim(cams, train2, test_cameras)
         /\ last' = call("IndexError")
         /\ UNCHANGED <<resolution_scales, test_cameras, all_train_set, train_idxs,
                        test_idxs, num_cameras, candidate_views_filter>>
    ELSE
    LET new_test == SelectCameras(all_cameras, test_indices)
        test2 == [test_cameras EXCEPT ![scale] = new_test]
    IN  /\ train_cameras' = train2
        /\ test_cameras' = test2
        /\ cams' = Reclaim(ResetIdentifiers(cams, new_train, new_test), train2, test2)
        /\ train_idxs' = NewTrainIdxs(train_indices)
        /\ test_idxs' = {Range(Len(test_indices))}
        /\ last' = call("ok")
        /\ UNCHANGED <<resolution_scales, all_train_set, num_cameras,
                       candidate_views_filter>>

\* A call that raises before it writes anything leaves the same state
\* whatever its other arguments are: one choice of them stands for all.
UpdateCameras ==
    /\ calls < MaxCalls
    /\ calls' = calls + 1
    /\ UNCHANGED <<construction, arguments>>
    /\ \E scale \in Scales :
        IF scale \notin DOMAIN train_cameras
        THEN update_cameras("list", <<>>, <<>>, scale)
        ELSE LET all_cameras == train_cameras[scale]
                 tests == UpToOne(IndexSet(all_cameras))
             IN  \/ \E train_indices \in UpToTwo(IndexSet(all_cameras)) :
                       IF ~AllIndexOK(all_cameras, train_indices)
                       THEN update_cameras("list", train_indices, <<>>, scale)
                       ELSE \E test_indices \in tests :
                               update_cameras("list", train_indices, test_indices, scale)
                 \/ \E train_indices \in UpToTwo(MapNameSet) :
                       IF ~AllIndexOK(all_cameras,
                                      MatchedIdx(cams, all_cameras, Elems(train_indices)))
                       THEN update_cameras("dict", train_indices, <<>>, scale)
                       ELSE \E test_indices \in tests :
                               update_cameras("dict", train_indices, test_indices, scale)

\* scene.candidate_views_filter = f, the attribute the training loop sets.
SetCandidateViewsFilter ==
    /\ calls < MaxCalls
    /\ calls' = calls + 1
    /\ UNCHANGED <<construction, arguments>>
    /\ \E f \in {"None", "even"} :
        /\ f # candidate_views_filter
        /\ candidate_views_filter' = f
        /\ last' = Call("set_filter", 1, "ok", None)
        /\ UNCHANGED <<resolution_scales, train_cameras, test_cameras, cams,
                       all_train_set, train_idxs, test_idxs, num_cameras>>

\* The accessors, as calls of the training loop.  They write no field of the
\* Scene; `last` records what the caller got back.
GetCandidateSet ==
    /\ last' = [Call("get_candidate_set", 1, "ok", None) EXCEPT !.out = get_candidate_set]
    /\ UNCHANGED <<resolution_scales, train_cameras, test_cameras, cams, all_train_set,
                   train_idxs, test_idxs, num_cameras, candidate_views_filter, calls,
                   construction, arguments>>

GetCandidateCameras ==
    /\ \E scale \in Scales :
          last' = IF scale \notin DOMAIN train_cameras
                  THEN Call("getCandidateCameras", scale, "KeyError", None)
                  ELSE IF ~getCandidateCamerasOK(scale)
                  THEN Call("getCandidateCameras", scale, "IndexError", None)
                  ELSE [Call("getCandidateCameras", scale, "ok", None)
                          EXCEPT !.out = getCandidateCameras(scale)]
    /\ UNCHANGED <<resolution_scales, train_cameras, test_cameras, cams, all_train_set,
                   train_idxs, test_idxs, num_cameras, candidate_views_filter, calls,
                   construction, arguments>>

\* ------------------------------------------- construction and persistence
\* The permutations generator.shuffle(list(range(n))) can give: the one of
\* the table for a generator freshly seeded with 42, any for the
\* process-wide generator, whose state is whatever the process left there.
random_shuffle(generator, n) ==
    IF generator = "Random(42)" THEN {Shuffle42(n)} ELSE TestOrders(n)

\* Variant: the active sequence shuffled by the process-wide generator.
ProcessGenerator == "random"

\* Line 78 shuffles the active sequence with random.Random(42).
TrainGenerator == "Random(42)"

\* Line 81 shuffles the test views with the process-wide generator.
TestGenerator == "random"

SavedIterations(dir) == {k \in IterSet : dir.point_cloud[k] # None}

\* searchForMaxIteration(model_path/point_cloud): the largest iteration saved.
searchForMaxIteration(dir) == MaxOf(SavedIterations(dir))

LoadIterations == {NoneIter} \cup (-1..MaxIter)

\* What a Scene adds to the record of the Scenes built: its index, and
\* whether a Scene of the same dataset and shuffle flag was built before it.
IndexOf(n, shuffle, b) ==
    [n |-> n, shuffle |-> shuffle, train_idxs |-> b.train_idxs,
     all_train_set |-> b.all_train_set,
     again |-> \E a \in built : a.n = n /\ a.shuffle = shuffle]

\* Scene(args, gaussians, load_iteration, shuffle) on the model directory,
\* for a dataset of n train and t test views.  A constructor that raises
\* leaves the Scene the process had.
Scene_init(n, t, load_iteration, shuffle) ==
    LET call(status) == [Call("Scene", 1, status, None)
                           EXCEPT !.iteration = load_iteration,
                                  !.kind = IF shuffle THEN "shuffle" ELSE "in order"]
    IN
    IF Truthy(load_iteration) /\ load_iteration = -1 /\ SavedIterations(model_dir) = {}
    THEN \* line 40: nothing to take the maximum of
         /\ last' = call("ValueError")
         /\ UNCHANGED <<resolution_scales, train_cameras, test_cameras, cams,
                        all_train_set, train_idxs, test_idxs, num_cameras,
                        candidate_views_filter, calls, construction, arguments>>
    ELSE
    LET iteration == IF ~Truthy(load_iteration) THEN NoneIter
                     ELSE IF load_iteration = -1 THEN searchForMaxIteration(model_dir)
                     ELSE load_iteration
        fresh == FreshRun(iteration)
        written == IF fresh THEN <<"input.ply", "cameras.json">> ELSE <<>>
        dir == IF fresh THEN WriteArtifacts(model_dir) ELSE model_dir
    IN
    IF Resumes(iteration) /\ iteration \notin SavedIterations(model_dir)
    THEN \* line 92: load_ply finds no file
         /\ last' = [call("FileNotFoundError") EXCEPT !.effects = written]
         /\ model_dir' = dir
         /\ UNCHANGED <<resolution_scales, train_cameras, test_cameras, cams,
                        all_train_set, train_idxs, test_idxs, num_cameras,
                        candidate_views_filter, calls, loaded_iter, gaussians, built,
                        arguments>>
    ELSE
    \E active \in (IF shuffle THEN random_shuffle(TrainGenerator, n) ELSE {Range(n)}),
       order \in (IF shuffle THEN random_shuffle(TestGenerator, t) ELSE {Range(t)}) :
        LET b == Built(<<1>>, n, t, active, order)
        IN  /\ resolution_scales' = <<1>>
            /\ num_cameras' = b.num_cameras
            /\ all_train_set' = b.all_train_set
            /\ train_idxs' = b.train_idxs
            /\ test_idxs' = {}
            /\ candidate_views_filter' = "None"
            /\ train_cameras' = b.train_cameras
            /\ test_cameras' = b.test_cameras
            /\ cams' = b.cams
            /\ calls' = 0
            /\ loaded_iter' = iteration
            /\ model_dir' = dir
            /\ gaussians' = IF Resumes(iteration) THEN model_dir.point_cloud[iteration]
                            ELSE PcdState
            /\ built' = built \cup {IndexOf(n, shuffle, b)}
            /\ UNCHANGED arguments
            /\ last' = [call("ok") EXCEPT
                          !.effects = written \o (IF Resumes(iteration)
                                                  THEN <<"load_ply">>
                                                  ELSE <<"create_from_pcd">>)]

\* save(iteration): the representation written under point_cloud/iteration_<n>.
save(iteration) ==
    /\ model_dir' = [model_dir EXCEPT !.point_cloud[iteration] = gaussians]
    /\ last' = [Call("save", 1, "ok", None) EXCEPT !.iteration = iteration]
    /\ UNCHANGED <<resolution_scales, train_cameras, test_cameras, cams,
                   all_train_set, train_idxs, test_idxs, num_cameras,
                   candidate_views_filter, loaded_iter, gaussians, built,
                   arguments>>

Save ==
    /\ UNCHANGED calls
    /\ \E iteration \in IterSet : save(iteration)

\* save as one of the calls made on a Scene between its other methods.
SaveCall ==
    /\ calls < MaxCalls
    /\ calls' = calls + 1
    /\ \E iteration \in IterSet : save(iteration)

\* A step of the optimizer, which owns the representation.
Optimize ==
    /\ gaussians < PcdState + MaxTrain
    /\ gaussians' = gaussians + 1
    /\ last' = Call("optimize", 1, "ok", None)
    /\ UNCHANGED <<resolution_scales, train_cameras, test_cameras, cams,
                   all_train_set, train_idxs, test_idxs, num_cameras,
                   candidate_views_filter, calls, loaded_iter, model_dir, built,
                   arguments>>

\* A training run and its restarts: one dataset (MaxViews train views, no
\* test view), one model directory.
InitPersist == Construct(<<1>>, MaxViews, 0, TRUE, <<>>)

Reopen == \E load_iteration \in LoadIterations : Scene_init(MaxViews, 0, load_iteration, TRUE)

NextPersist ==
    \/ Optimize
    \/ Save
    \/ Reopen

SpecPersist == InitPersist /\ [][NextPersist]_vars

\* A process making Scene after Scene, of several datasets, fresh each time.
NewScene ==
    \E n \in 1..MaxViews, t \in 0..(MaxViews - 1), shuffle \in BOOLEAN :
        Scene_init(n, t, NoneIter, shuffle)

NextShuffle == NewScene

SpecShuffle == Init /\ [][NextShuffle]_vars

\* --------------------------------------------------- command-line arguments
Keys == 1..MaxKeys

Values == 0..MaxValue

\* The mappings of some of the fields to the values of V.
Partial(K, V) == UNION {[D -> V] : D \in SUBSET K}

\* parser.parse_args(argv): every field of the parser, with the value the
\* command line gives it or else its default.
parse_args(defaults, argv) ==
    [k \in DOMAIN defaults |-> IF k \in DOMAIN argv THEN argv[k] ELSE defaults[k]]

\* Lines 127-129: the fields of args_cmdline whose value is not None.
Overrides(args_cmdline) == {k \in DOMAIN args_cmdline : args_cmdline[k] # None}

\* get_combined_args(parser).  Opening cfg_args ends in TypeError (no
\* model_path: caught, the configuration is empty), in FileNotFoundError
\* (not caught) or gives the saved Namespace.
get_combined_args ==
    LET args_cmdline == parse_args(parser, sys_argv)
        args_cfgfile == IF cfg_file.found = "ok" THEN cfg_file.args ELSE <<>>
        over == Overrides(args_cmdline)
        merged_dict == [k \in DOMAIN args_cfgfile \cup over |->
                          IF k \in over THEN args_cmdline[k] ELSE args_cfgfile[k]]
    IN  IF cfg_file.found = "FileNotFoundError"
        THEN [status |-> "FileNotFoundError", args |-> <<>>]
        ELSE [status |-> "ok", args |-> merged_dict]

GetCombinedArgs ==
    /\ merged.status = "none"
    /\ merged' = get_combined_args
    /\ UNCHANGED <<resolution_scales, train_cameras, test_cameras, cams,
                   all_train_set, train_idxs, test_idxs, num_cameras,
                   candidate_views_filter, last, calls, construction,
                   parser, sys_argv, cfg_file>>

\* A program started with any parser, command line and saved configuration;
\* it has made no Scene yet.
InitArgs ==
    /\ parser \in Partial(Keys, Values \cup {None})
    /\ sys_argv \in Partial(DOMAIN parser, Values)
    /\ cfg_file \in [found : {"ok"}, args : Partial(Keys, Values)]
                      \cup [found : {"TypeError", "FileNotFoundError"}, args : {<<>>}]
    /\ merged = [status |-> "none", args |-> <<>>]
    /\ resolution_scales = <<>>
    /\ train_cameras = <<>>
    /\ test_cameras = <<>>
    /\ cams = [r \in Refs |-> NoCamera]
    /\ all_train_set = {}
    /\ train_idxs = <<>>
    /\ test_idxs = {}
    /\ num_cameras = 0
    /\ candidate_views_filter = "None"
    /\ last = NoCall
    /\ calls = 0
    /\ loaded_iter = NoneIter
    /\ gaussians = PcdState
    /\ model_dir = EmptyDir
    /\ built = {}

NextArgs == GetCombinedArgs

SpecArgs == InitArgs /\ [][NextArgs]_vars

\* The resolution_scales a Scene is constructed with.
ScaleLists == {<<1>>, <<2>>, <<1, 2>>, <<2, 1>>}

Next ==
    \/ AddCamera
    \/ LoadInflatedCameras
    \/ UpdateCameras

Spec == Init /\ [][Next]_vars

\* The same operations on Scenes of any of the scale lists (one train view,
\* realized once per scale).
InitScales == \E scales \in ScaleLists : Construct(scales, 1, 0, TRUE, <<>>)

SpecScales == InitScales /\ [][Next]_vars

\* The same with the training loop setting the candidate filter, reading
\* the candidates and saving between calls: every method that writes or
\* computes something.
NextFilter ==
    \/ Next
    \/ SetCandidateViewsFilter
    \/ GetCandidateSet
    \/ GetCandidateCameras
    \/ SaveCall

\* The candidates are a matter of the universe and the active sequence:
\* datasets without test views, shuffled as by default, are enough here.
InitFilter == \E n \in 1..MaxViews : Construct(<<1>>, n, 0, TRUE, <<>>)

SpecFilter == InitFilter /\ [][NextFilter]_vars

\* ------------------------------------------------------------------ claims
RealizedScales == DOMAIN train_cameras

Uids(seq) == {cams[seq[p]].uid : p \in 1..Len(seq)}

\* Every entry of sel is a position 0..len-1 of seq.
ValidPositions(seq, sel) == \A p \in 1..Len(sel) : sel[p] \in 0..(Len(seq) - 1)

\* seq at the positions sel, in that order.
AtPositions(seq, sel) == [p \in 1..Len(sel) |-> seq[sel[p] + 1]]

CeilDiv(m, s) == (m + s - 1) \div s

Ok(op) == last.op = op /\ last.status = "ok"

\* C1: on every realized scale, the uids of the cameras getCandidateCameras
\* returns are disjoint from the uids of the cameras getTrainCameras returns.
C1_CandidatesDisjointFromTrain ==
    \A s \in RealizedScales :
        getCandidateCamerasOK(s) =>
            Uids(getCandidateCameras(s)) \cap Uids(getTrainCameras(s)) = {}

\* C2: every identifier of the active sequence is in the universe.
C2_ActiveSubsetOfUniverse == Elems(train_idxs) \subseteq all_train_set

\* C3: after construction and after each completed call, on every realized
\* scale the train list is as long as the active sequence.
C3_TrainLengthEqualsActive ==
    last.status = "ok" =>
        \A s \in RealizedScales : Len(train_cameras[s]) = Len(train_idxs)

\* C4: a successful add_camera(cam, scale) lengthens the train list of the
\* scale by one, adds cam.uid to the universe (which grows by one if the uid
\* is new and not at all if it is not), appends cam.uid to the active
\* sequence and returns cam.uid.
C4_AddCameraEffect ==
    [][(last'.op = "add_camera" /\ last'.status = "ok") =>
          LET s == last'.scale
              before == train_cameras[s]
              after == train_cameras'[s]
              uid == cams'[after[Len(after)]].uid
          IN  /\ Len(after) = Len(before) + 1
              /\ SubSeq(after, 1, Len(before)) = before
              /\ Cardinality(all_train_set') =
                     Cardinality(all_train_set) + (IF uid \in all_train_set THEN 0 ELSE 1)
              /\ all_train_set \subseteq all_train_set'
              /\ uid \in all_train_set'
              /\ train_idxs' = Append(train_idxs, uid)
              /\ last'.ret = uid]_vars

\* Reached: the first call after construction was an add_camera of a camera
\* whose uid the universe did not hold.
C4_Witness ==
    /\ Ok("add_camera")
    /\ calls = 1
    /\ last.ret \notin Elems(SubSeq(train_idxs, 1, Len(train_idxs) - 1))
    /\ last.ret \in all_train_set

\* C5: add_camera never activates an identifier that is already active, so
\* the active sequence holds no identifier twice.
C5_ActiveHasNoDuplicates ==
    \A p, q \in 1..Len(train_idxs) : p # q => train_idxs[p] # train_idxs[q]

\* C6: load_inflated_cameras with stride s on a manifest of m entries adds
\* exactly the ceil(m/s) identifiers from max(universe)+1 on to the universe,
\* adds none of them to the active sequence, and with no candidate filter
\* set they are all candidates afterwards.
C6_InflateAddsCandidates ==
    [][(last'.op = "load_inflated_cameras" /\ last'.status = "ok") =>
          LET k == CeilDiv(last'.m, last'.skip)
              base == MaxOf(all_train_set) + 1
              block == base..(base + k - 1)
          IN  /\ all_train_set' = all_train_set \cup block
              /\ Cardinality(all_train_set' \ all_train_set) = k
              /\ train_idxs' = train_idxs
              /\ candidate_views_filter' = "None" =>
                     block \subseteq Elems(get_candidate_set')]_vars

\* C7: load_inflated_cameras leaves the length of getTrainCameras(scale)
\* as it was.
C7_InflateKeepsTrainLength ==
    [][(last'.op = "load_inflated_cameras" /\ last'.status = "ok") =>
          \A s \in RealizedScales :
              Len(getTrainCameras(s)') = Len(getTrainCameras(s))]_vars

\* C8: after a completed update_cameras every camera of the new train list
\* and of the new test list carries its 0-based position as uid.
C8_UidEqualsPosition ==
    (Ok("update_cameras")) =>
        LET s == last.scale
        IN  /\ \A p \in 1..Len(train_cameras[s]) : cams[train_cameras[s][p]].uid = p - 1
            /\ \A q \in 1..Len(test_cameras[s]) : cams[test_cameras[s][q]].uid = q - 1

\* C9 as stated: update_cameras with an index list completes whenever every
\* train index is a position of the prior train list and every test index
\* a position of the prior test list; the new train list is the prior train
\* list at the train selection and the new test list is the prior test list
\* at the test selection.
C9_AsStated ==
    [][(last'.op = "update_cameras" /\ last'.kind = "list"
           /\ last'.scale \in RealizedScales) =>
          LET s == last'.scale
          IN  (ValidPositions(train_cameras[s], last'.train)
                   /\ ValidPositions(test_cameras[s], last'.test)) =>
                  /\ last'.status = "ok"
                  /\ train_cameras'[s] = AtPositions(train_cameras[s], last'.train)
                  /\ test_cameras'[s] = AtPositions(test_cameras[s], last'.test)]_vars

\* C9 amended: update_cameras with an index list completes whenever every
\* train index and every test index is a position of the prior train list;
\* the new train list is the prior train list at the train selection and
\* the new test list is the prior train list at the test selection.
C9_ListSelection ==
    [][(last'.op = "update_cameras" /\ last'.kind = "list"
           /\ last'.scale \in RealizedScales) =>
          LET s == last'.scale
          IN  (ValidPositions(train_cameras[s], last'.train)
                   /\ ValidPositions(train_cameras[s], last'.test)) =>
                  /\ last'.status = "ok"
                  /\ train_cameras'[s] = AtPositions(train_cameras[s], last'.train)
                  /\ test_cameras'[s] = AtPositions(train_cameras[s], last'.test)]_vars

\* Reached: a completed update_cameras([1, 0], [0]) on scale 1.0, which
\* swaps two train cameras and makes a test list of one camera.
C9_Witness ==
    /\ Ok("update_cameras")
    /\ last.kind = "list"
    /\ last.train = <<1, 0>>
    /\ last.test = <<0>>
    /\ Len(train_cameras[1]) = 2
    /\ Len(test_cameras[1]) = 1

\* C10: a failed update_cameras leaves the train and test lists, the
\* identifiers of the cameras, the active sequence and the universe as they
\* were.
C10_UpdateAtomic ==
    [][(last'.op = "update_cameras" /\ last'.status # "ok") =>
          /\ UNCHANGED <<train_cameras, test_cameras, train_idxs, all_train_set>>
          /\ \A r \in Live(train_cameras, test_cameras) : cams'[r].uid = cams[r].uid]_vars

\* C11: a completed update_cameras given a mapping as train selection makes
\* the train list exactly the cameras of the prior train list whose image
\* name is a value of the mapping, in their prior relative order.
C11_NameSelection ==
    [][(last'.op = "update_cameras" /\ last'.kind = "dict" /\ last'.status = "ok") =>
          LET s == last'.scale
              train_names == Elems(last'.train)
          IN  train_cameras'[s] =
                  SelectSeq(train_cameras[s],
                            LAMBDA r : cams[r].image_name \in train_names)]_vars

\* C12: get_candidate_set returns, in strictly ascending order, exactly the
\* identifiers of the universe that are not active and that the candidate
\* filter (when set) accepts; get_candidate_set and getCandidateCameras
\* write no field of the Scene, and a second call right after the first
\* returns what the first returned.
C12_CandidateSetPure ==
    [][/\ (last'.op = "get_candidate_set") =>
              /\ Elems(last'.out) =
                     {id \in all_train_set :
                          /\ id \notin Elems(train_idxs)
                          /\ (candidate_views_filter # "None" =>
                                  Accepts(candidate_views_filter, id))}
              /\ \A p \in 1..(Len(last'.out) - 1) : last'.out[p] < last'.out[p + 1]
              /\ (last.op = "get_candidate_set" => last'.out = last.out)
       /\ (last'.op = "getCandidateCameras" /\ last.op = "getCandidateCameras"
               /\ last.scale = last'.scale) =>
              (last'.out = last.out /\ last'.status = last.status)
       /\ (last'.op \in {"get_candidate_set", "getCandidateCameras"}) =>
              UNCHANGED <<resolution_scales, train_cameras, test_cameras, cams,
                          all_train_set, train_idxs, test_idxs, num_cameras,
                          candidate_views_filter>>]_vars

\* Reached: get_candidate_set called with the filter set, on a Scene with
\* two inactive identifiers of which the filter accepts one.
C12_Witness ==
    /\ last.op = "get_candidate_set"
    /\ candidate_views_filter = "even"
    /\ Cardinality(CandidateIds) = 2
    /\ Len(last.out) = 1

\* C13: constructing a Scene with load_iteration=k on a model directory that
\* holds the file save(k) wrote, for any k >= 0, succeeds by the resume
\* path: the representation is loaded from that file and not made again
\* from the point cloud, and its state is the saved one.
C13_SaveThenResume ==
    [][(last'.op = "Scene" /\ last'.iteration \in SavedIterations(model_dir)) =>
          /\ last'.status = "ok"
          /\ last'.effects = <<"load_ply">>
          /\ loaded_iter' = last'.iteration
          /\ gaussians' = model_dir.point_cloud[last'.iteration]]_vars

\* C14: add_camera with a scale that was not realized at construction
\* fails, and leaves the train lists (no entry made, none extended), the
\* universe, the active sequence and every other field as they were.
C14_UnknownScaleRejected ==
    [][(last'.op = "add_camera" /\ last'.scale \notin RealizedScales) =>
          /\ last'.status = "ValueError"
          /\ UNCHANGED <<resolution_scales, train_cameras, test_cameras, cams,
                         all_train_set, train_idxs, test_idxs, num_cameras,
                         candidate_views_filter>>]_vars

\* Reached: add_camera on an unrealized scale, after a call that had grown
\* the train list.
C14_Witness ==
    /\ last.op = "add_camera"
    /\ last.status = "ValueError"
    /\ last.scale \notin RealizedScales
    /\ calls = MaxCalls
    /\ Len(train_cameras[1]) > MaxViews

\* C16: any two Scenes built with shuffle=True from datasets of the same n
\* train views have the same active sequence, a permutation of 0..n-1, and
\* the universe {0..n-1}, whatever Scenes were built in between and
\* whatever the process-wide generator gave.
C16_ShuffleDeterministic ==
    \A a, b \in built :
        (a.shuffle /\ b.shuffle /\ a.n = b.n) =>
            /\ a.train_idxs = b.train_idxs
            /\ Len(a.train_idxs) = a.n
            /\ Elems(a.train_idxs) = 0..(a.n - 1)
            /\ a.all_train_set = 0..(a.n - 1)

\* Reached: two Scenes built with shuffle=True from the largest dataset,
\* whose shuffled order is not the dataset's order, and a Scene built with
\* shuffle=False beside them.
C16_Witness ==
    /\ \E a, b \in built :
          /\ a # b
          /\ a.shuffle /\ b.shuffle
          /\ a.n = MaxViews /\ b.n = MaxViews
          /\ a.train_idxs # Range(MaxViews)
    /\ \E c \in built : ~c.shuffle

\* C19: a construction that succeeds either loads the representation from a
\* snapshot or makes it from the point cloud, one of the two and only one;
\* it writes input.ply and cameras.json when it makes the representation
\* from the point cloud and writes neither when it loads it.
C19_OnePath ==
    [][(last'.op = "Scene" /\ last'.status = "ok") =>
          LET did == last'.effects
              times(x) == Cardinality({p \in 1..Len(did) : did[p] = x})
              resumed == times("load_ply") = 1
              fresh == times("create_from_pcd") = 1
          IN  /\ times("load_ply") + times("create_from_pcd") = 1
              /\ fresh => /\ times("input.ply") = 1
                          /\ times("cameras.json") = 1
                          /\ model_dir'.input_ply /\ model_dir'.cameras_json
                          /\ gaussians' = PcdState
              /\ resumed => /\ times("input.ply") = 0
                            /\ times("cameras.json") = 0
                            /\ model_dir' = model_dir
                            /\ gaussians' = model_dir.point_cloud[loaded_iter']]_vars

\* Reached: a Scene that resumed from the largest iteration saved, found by
\* load_iteration=-1, with a representation the optimizer had changed.
C19_Witness ==
    /\ Ok("Scene")
    /\ last.iteration = -1
    /\ last.effects = <<"load_ply">>
    /\ loaded_iter = MaxIter
    /\ gaussians # PcdState

\* C15: on a Scene with a realized scale other than 1.0,
\* load_inflated_cameras fails and leaves the universe and the train list
\* of every scale, that of scale 1.0 included, as they were.
C15_InflateUnsupportedScale ==
    [][(last'.op = "load_inflated_cameras" /\ RealizedScales # {1}) =>
          /\ last'.status = "AssertionError"
          /\ all_train_set' = all_train_set
          /\ train_cameras' = train_cameras]_vars

\* C17: in what get_combined_args returns, a field the command line gives
\* has the command line's value, and a field it does not give but the
\* saved configuration has keeps the saved value (so none of those is lost).
C17_CommandLineBeatsSaved ==
    (merged.status = "ok") =>
        LET saved == IF cfg_file.found = "ok" THEN cfg_file.args ELSE <<>>
        IN  /\ \A k \in DOMAIN sys_argv :
                   k \in DOMAIN merged.args /\ merged.args[k] = sys_argv[k]
            /\ \A k \in DOMAIN saved \ DOMAIN sys_argv :
                   k \in DOMAIN merged.args /\ merged.args[k] = saved[k]

\* C18: no call of add_camera, load_inflated_cameras, update_cameras, save
\* or an accessor takes an identifier out of the universe, and
\* update_cameras, save and the accessors leave the universe as it is.
C18_UniverseGrows ==
    [][/\ all_train_set \subseteq all_train_set'
       /\ (last'.op \in {"update_cameras", "save", "get_candidate_set",
                         "getCandidateCameras"}) =>
              all_train_set' = all_train_set]_vars

\* Reached: a completed update_cameras that emptied the train list of a
\* Scene whose universe an earlier call had grown past the dataset's views.
C18_Witness ==
    /\ Ok("update_cameras")
    /\ train_idxs = <<>>
    /\ Cardinality(all_train_set) > MaxViews

\* C20: on every realized scale every identifier of the candidate set is a
\* position of the train list, so getCandidateCameras raises no IndexError.
C20_CandidatesArePositions ==
    \A s \in RealizedScales :
        /\ ValidPositions(train_cameras[s], get_candidate_set)
        /\ getCandidateCamerasOK(s)

====
